---- MODULE Spec2Model ----
(***************************************************************************)
(* process-reader: ProcessReader multiplexes the stdout and stderr pipes    *)
(* of one child process into a pull-based sequence of events                *)
(* (src/src/main.rs).                                                       *)
(*                                                                         *)
(* The reader is modelled at the granularity of its system calls: one step  *)
(* per register(), poll(), read() and try_wait(); everything the code does *)
(* between two system calls is part of the step of the earlier call.  The   *)
(* child process, the two pipes and the reactor's pending readiness are the *)
(* environment; the child's steps interleave freely with the reader's.      *)
(***************************************************************************)
EXTENDS Integers, Sequences, FiniteSets, TLC

\* ------------------------------------------------------------------ bounds

\* Longest child output (stdout and stderr bytes together) enumerated
\* exhaustively over SmallBytes.
MaxWrite == 1

\* How many reader steps may fail (poll, read or try_wait errors) in one run.
MaxFaults == 1

\* ------------------------------------------------------- program constants

STDOUT == 0
STDERR == 1
BUFFER_SIZE == 9
LF == 10
CR == 13

\* The two values of enum Stream.
Streams == {"Stdout", "Stderr"}

\* The reactor's token of a stream, and the stream of a token (the match of
\* next() on event.token()).  StreamOf_Stdout is the mutant of StreamOf in
\* which both arms of the match drain stdout.
TokenOf(s) == IF s = "Stdout" THEN STDOUT ELSE STDERR
StreamOf_Stdout(t) == "Stdout"
StreamOf(t) == IF t = STDOUT THEN "Stdout" ELSE "Stderr"
Tokens == {STDOUT, STDERR}

\* Exit statuses a child may end with.
ExitCodes == {0, 1}

\* --------------------------------------------------------- child programs

\* Bytes of the exhaustively enumerated child outputs.
SmallBytes == {LF, CR, 97}

SeqsUpTo(S, n) == UNION {[1..k -> S] : k \in 0..n}

\* A child program is the sequence of writes it makes to each stream, each
\* write a byte string.  OneByOne writes the bytes b one write per byte.
OneByOne(b) == [i \in 1..Len(b) |-> <<b[i]>>]

\* Every pair of outputs of at most MaxWrite bytes together, written byte by
\* byte.
SmallScripts ==
  {[Stdout |-> OneByOne(o), Stderr |-> OneByOne(e)] :
     o \in SeqsUpTo(SmallBytes, MaxWrite),
     e \in SeqsUpTo(SmallBytes, MaxWrite)}
  \cap {c \in [Stdout : SeqsUpTo({<<x>> : x \in SmallBytes}, MaxWrite),
                Stderr : SeqsUpTo({<<x>> : x \in SmallBytes}, MaxWrite)] :
          Len(c.Stdout) + Len(c.Stderr) <= MaxWrite}

\* "A\n" then "B\n" on stdout while "X\n" then "Y\n" on stderr.
ScriptABXY ==
  [Stdout |-> <<<<65, LF>>, <<66, LF>>>>, Stderr |-> <<<<88, LF>>, <<89, LF>>>>]

\* A stdout line longer than one read: "abcdefgh\r\ni\n" (12 bytes) written
\* byte by byte, so that a full read of BUFFER_SIZE bytes can end anywhere
\* around the CR and the LF.
ScriptLong ==
  [Stdout |-> OneByOne(<<97, 98, 99, 100, 101, 102, 103, 104, CR, LF, 105, LF>>),
   Stderr |-> <<>>]

\* Non-ASCII output: a two-byte UTF-8 character written in two writes, then a
\* byte that is never valid UTF-8, on stdout; a lead byte without its
\* continuation on stderr.
ScriptUtf8 ==
  [Stdout |-> <<<<195>>, <<169, 255, LF>>>>, Stderr |-> <<<<195, LF>>>>]

\* A line, then a fragment without line feed, on both streams: "a\n" "b" on
\* stdout, "a\r\nc" "\r" on stderr.
ScriptFragment ==
  [Stdout |-> <<<<97, LF>>, <<98>>>>, Stderr |-> <<<<97, CR, LF, 99>>, <<CR>>>>]

ScenarioScripts == {ScriptABXY, ScriptLong, ScriptUtf8, ScriptFragment}

Scripts == SmallScripts \cup ScenarioScripts

\* ------------------------------------------------------------------ state

VARIABLES
  cmd,         \* the child's program: [Stdout |-> writes, Stderr |-> writes]
  wpos,        \* [stream -> number of writes the child has made]
  rpos,        \* [stream -> number of bytes the reader has read from the pipe]
  open,        \* [stream -> the child still holds the pipe's write end]
  exit_status, \* what try_wait sees: <<>> while running, <<code>> once exited
  ready,       \* reactor: tokens whose readiness event is not yet reported
  stdout_buf,  \* ProcessReader.stdout_buf
  stderr_buf,  \* ProcessReader.stderr_buf
  output_buf,  \* ProcessReader.output_buf
  done,        \* ProcessReader.done
  events,      \* ProcessReader.events not yet handled by the for loop
  pc,          \* where the reader is: "start" (in ProcessReader::start) |
               \* "idle" | "poll" | "read" | "try_wait"
  n,           \* read_pipe: bytes the last read of the running drain returned
  ret,         \* what the last call of next returned
  yielded,     \* every Some(..) item next has returned, in order
  reported,    \* tokens the last wake reported (cleared when next returns)
  drained,     \* streams read since the last wake (cleared when next returns)
  faults,      \* number of failed steps so far
  registered,  \* reactor: tokens of the read ends registered so far
  early,       \* streams whose pipe held bytes when it was registered and
               \* has not been read since
  waited       \* the last call of next went on to wait on the reactor

vars == <<cmd, wpos, rpos, open, exit_status, ready, stdout_buf, stderr_buf,
          output_buf, done, events, pc, n, ret, yielded, reported, drained,
          faults, registered, early, waited>>


\* ------------------------------------------------------------------ items

\* enum Out, and the Option<Result<Out, io::Error>> items of the iterator.
\* text is the line of a line event, status the exit status of Done.
Line(s, text) == [kind |-> s, text |-> text, status |-> -1]
Done(st) == [kind |-> "Done", text |-> <<>>, status |-> st]
Err == [kind |-> "Err", text |-> <<>>, status |-> -1]
None == [kind |-> "None", text |-> <<>>, status |-> -1]
NotCalled == [kind |-> "NotCalled", text |-> <<>>, status |-> -1]

\* ---------------------------------------------------------------- helpers

Min(a, b) == IF a < b THEN a ELSE b

\* The bytes of a sequence of writes.
RECURSIVE Flat(_)
Flat(ws) == IF ws = <<>> THEN <<>> ELSE Head(ws) \o Flat(Tail(ws))

\* All the bytes the child writes to stream s, those it has written, those
\* the reader has read, and those in the pipe.
Output(s) == Flat(cmd[s])
Written(s) == Flat(SubSeq(cmd[s], 1, wpos[s]))
Consumed(s) == SubSeq(Output(s), 1, rpos[s])
Pipe(s) == SubSeq(Written(s), rpos[s] + 1, Len(Written(s)))

str_buf(s) == IF s = "Stdout" THEN stdout_buf ELSE stderr_buf

\* String::from_utf8_lossy on byte strings whose bytes are below 0xE0 or above
\* 0xF4: ASCII maps to itself, a lead byte C2..DF with a continuation byte is
\* one two-byte character, any other byte is one U+FFFD.
RECURSIVE from_utf8_lossy(_)
from_utf8_lossy(b) ==
  IF b = <<>> THEN <<>>
  ELSE IF b[1] < 128 THEN <<b[1]>> \o from_utf8_lossy(Tail(b))
  ELSE IF b[1] \in 194..223 /\ Len(b) >= 2 /\ b[2] \in 128..191
    THEN <<(b[1] - 192) * 64 + (b[2] - 128)>> \o from_utf8_lossy(Tail(Tail(b)))
  ELSE <<65533>> \o from_utf8_lossy(Tail(b))

\* Mutant of push_back: the event is pushed at the head of the queue.
push_front(q, item) == <<item>> \o q

\* out_buf.push_back(item) in read_pipe.
push_back(q, item) == Append(q, item)

\* Mutant of ScanByte: a carriage return is kept like any other byte.
ScanByte_KeepCR(b, sb, q, s) ==
  IF b = LF
    THEN [str_buf |-> <<>>, out_buf |-> push_back(q, Line(s, from_utf8_lossy(sb)))]
  ELSE [str_buf |-> Append(sb, b), out_buf |-> q]

\* Mutant of ScanByte: a line is enqueued as an event of the other stream.
ScanByte_OtherKind(b, sb, q, s) ==
  IF b = LF
    THEN [str_buf |-> <<>>,
          out_buf |-> push_back(q, Line(IF s = "Stdout" THEN "Stderr" ELSE "Stdout",
                                        from_utf8_lossy(sb)))]
  ELSE IF b = CR THEN [str_buf |-> sb, out_buf |-> q]
  ELSE [str_buf |-> Append(sb, b), out_buf |-> q]

\* The body of the for loop of read_pipe for one byte b: the line buffer and
\* the queue it leaves, from the line buffer sb and the queue q.
ScanByte(b, sb, q, s) ==
  IF b = LF
    THEN [str_buf |-> <<>>, out_buf |-> push_back(q, Line(s, from_utf8_lossy(sb)))]
  ELSE IF b = CR THEN [str_buf |-> sb, out_buf |-> q]
  ELSE [str_buf |-> Append(sb, b), out_buf |-> q]

\* The for loop of read_pipe over the bytes of one chunk.
RECURSIVE ScanLoop(_, _, _, _)
ScanLoop(chunk, sb, q, s) ==
  IF chunk = <<>> THEN [str_buf |-> sb, out_buf |-> q]
  ELSE LET r == ScanByte(Head(chunk), sb, q, s)
       IN ScanLoop(Tail(chunk), r.str_buf, r.out_buf, s)

\* Mutant of Scan: the line buffer does not outlive a read.
Scan_FreshBuffer(chunk, sb, q, s) == ScanLoop(chunk, <<>>, q, s)

\* One round of the loop of read_pipe after a read that returned chunk: the
\* chunk is scanned into the stream's line buffer sb and the queue q.
Scan(chunk, sb, q, s) == ScanLoop(chunk, sb, q, s)

\* ------------------------------------------------------------------- Init

\* The state in ProcessReader::start after spawn() has returned: the child
\* runs with the write ends as its stdout and stderr, no read end is
\* registered yet.  The fields of the reader have the values start gives
\* them.
Init ==
  /\ cmd \in Scripts
  /\ wpos = [s \in Streams |-> 0]
  /\ rpos = [s \in Streams |-> 0]
  /\ open = [s \in Streams |-> TRUE]
  /\ exit_status = <<>>
  /\ ready = {}
  /\ stdout_buf = <<>>
  /\ stderr_buf = <<>>
  /\ output_buf = <<>>
  /\ done = FALSE
  /\ events = <<>>
  /\ pc = "start"
  /\ n = 0
  /\ ret = NotCalled
  /\ yielded = <<>>
  /\ reported = {}
  /\ drained = {}
  /\ faults = 0
  /\ registered = {}
  /\ early = {}
  /\ waited = FALSE

\* ------------------------------------------------------------ environment

\* The child makes its next write to stream s; the write makes the pipe's
\* read end ready, which the reactor notes when the read end is registered.
ChildWrite(s) ==
  /\ open[s]
  /\ wpos[s] < Len(cmd[s])
  /\ wpos' = [wpos EXCEPT ![s] = @ + 1]
  /\ ready' = ready \cup ({TokenOf(s)} \cap registered)
  /\ UNCHANGED <<waited, registered, early, cmd, rpos, open, exit_status, stdout_buf, stderr_buf, output_buf,
                 done, events, pc, n, ret, yielded, reported, drained, faults>>

\* The last write end of stream s is closed (by the child, or by the kernel
\* when the child exits); the hang-up makes the read end ready.  Until start
\* returns the parent holds a write end itself (stdout_write, stderr_write
\* and the files of cmd are dropped at its end), so no hang-up comes earlier.
ChildClose(s) ==
  /\ pc # "start"
  /\ open[s]
  /\ wpos[s] = Len(cmd[s])
  /\ open' = [open EXCEPT ![s] = FALSE]
  /\ ready' = ready \cup {TokenOf(s)}
  /\ UNCHANGED <<waited, registered, early, cmd, wpos, rpos, exit_status, stdout_buf, stderr_buf, output_buf,
                 done, events, pc, n, ret, yielded, reported, drained, faults>>

\* The child's exit status becomes available: an exiting process has its
\* descriptors closed before it can be waited for.
ChildExit ==
  /\ exit_status = <<>>
  /\ \A s \in Streams : ~open[s]
  /\ \E c \in ExitCodes : exit_status' = <<c>>
  /\ UNCHANGED <<waited, registered, early, cmd, wpos, rpos, open, ready, stdout_buf, stderr_buf, output_buf,
                 done, events, pc, n, ret, yielded, reported, drained, faults>>

\* ------------------------------------------------------------------ start

\* Mutant of RegisterReady: registering a read end never reports it.
RegisterReady_Never(s) == {}

\* What the reactor has pending for stream s right after its read end is
\* registered: the registration looks at the pipe, and a pipe that already
\* holds bytes is reported by the next wake.
RegisterReady(s) == IF Pipe(s) # <<>> THEN {TokenOf(s)} ELSE {}

\* The stream start registers next: stdout, then stderr.
NextToRegister == IF STDOUT \notin registered THEN "Stdout" ELSE "Stderr"

\* poll.registry().register(&mut .._read, token, Interest::READABLE) for the
\* next stream; after the second one start returns the reader.
Register ==
  /\ pc = "start"
  /\ LET s == NextToRegister IN
       /\ registered' = registered \cup {TokenOf(s)}
       /\ ready' = ready \cup RegisterReady(s)
       /\ early' = IF Pipe(s) # <<>> THEN early \cup {s} ELSE early
       /\ pc' = IF registered' = Tokens THEN "idle" ELSE "start"
  /\ UNCHANGED <<cmd, wpos, rpos, open, exit_status, stdout_buf, stderr_buf,
                 output_buf, done, events, n, ret, yielded, reported, drained,
                 faults, waited>>

\* ----------------------------------------------------------------- reader

\* Mutant of IsFinished: next does not look at self.done.
IsFinished_Never == FALSE

\* if self.done (the guard of next).
IsFinished == done

\* next returns Some(item).
Return(item) ==
  /\ ret' = item
  /\ yielded' = Append(yielded, item)
  /\ pc' = "idle"
  /\ n' = 0
  /\ events' = <<>>
  /\ reported' = {}
  /\ drained' = {}

\* Mutant of LoopTop: the queue is popped at its tail.
LoopTop_PopBack(q) ==
  IF q # <<>>
    THEN /\ output_buf' = SubSeq(q, 1, Len(q) - 1)
         /\ Return(q[Len(q)])
    ELSE /\ output_buf' = q
         /\ pc' = "poll"
         /\ n' = 0
         /\ events' = <<>>
         /\ reported' = {}
         /\ drained' = {}
         /\ UNCHANGED <<ret, yielded>>

\* The top of the loop of next with queue q: pop and return the head, or go
\* on to wait on the reactor.
LoopTop(q) ==
  IF q # <<>>
    THEN /\ output_buf' = Tail(q)
         /\ Return(Head(q))
    ELSE /\ output_buf' = q
         /\ pc' = "poll"
         /\ n' = 0
         /\ events' = <<>>
         /\ reported' = {}
         /\ drained' = {}
         /\ UNCHANGED <<ret, yielded>>

\* Mutant of AfterDrains: the exit status is asked for whatever the queue
\* holds.
AfterDrains_QueryAlways(q, rep, d) ==
  /\ output_buf' = q
  /\ pc' = "try_wait"
  /\ n' = 0
  /\ events' = <<>>
  /\ reported' = rep
  /\ drained' = d
  /\ UNCHANGED <<ret, yielded>>

\* Mutant of AfterDrains: the test of the queue is inverted, the exit status
\* is asked for when the drains produced something.
AfterDrains_QueryWhenQueued(q, rep, d) ==
  IF q = <<>>
    THEN LoopTop(q)
    ELSE /\ output_buf' = q
         /\ pc' = "try_wait"
         /\ n' = 0
         /\ events' = <<>>
         /\ reported' = rep
         /\ drained' = d
         /\ UNCHANGED <<ret, yielded>>

\* After the for loop over the events of a wake, with queue q: loop again when
\* a drain produced something, else ask for the exit status, having read the
\* streams d in this wake, which reported the tokens rep.
AfterDrains(q, rep, d) ==
  IF q # <<>>
    THEN LoopTop(q)
    ELSE /\ output_buf' = q
         /\ pc' = "try_wait"
         /\ n' = 0
         /\ events' = <<>>
         /\ reported' = rep
         /\ drained' = d
         /\ UNCHANGED <<ret, yielded>>

\* The for loop of next over the events evs still to handle, with queue q,
\* having read the streams d in this wake, which reported the tokens rep.
ForEvents(evs, q, rep, d) ==
  IF evs # <<>>
    THEN /\ events' = evs
         /\ output_buf' = q
         /\ pc' = "read"
         /\ n' = 0
         /\ reported' = rep
         /\ drained' = d
         /\ UNCHANGED <<ret, yielded>>
    ELSE AfterDrains(q, rep, d)

\* A call of next.
Call ==
  /\ pc = "idle"
  /\ IF IsFinished
       THEN /\ ret' = None
            /\ UNCHANGED <<output_buf, events, pc, n, yielded, reported, drained>>
       ELSE LoopTop(output_buf)
  /\ waited' = (~IsFinished /\ output_buf = <<>>)
  /\ UNCHANGED <<registered, early, cmd, wpos, rpos, open, exit_status, ready, stdout_buf, stderr_buf,
                 done, faults>>

\* Orders in which a wake can list the tokens T.
EventLists(T) ==
  {evs \in SeqsUpTo(Tokens, Cardinality(Tokens)) :
     /\ Len(evs) = Cardinality(T)
     /\ {evs[i] : i \in 1..Len(evs)} = T}

\* poll returns Ok with the tokens T, which include every pending one.
Wake(T) ==
  /\ ready \subseteq T
  /\ ready' = {}
  /\ \E evs \in EventLists(T) : ForEvents(evs, output_buf, T, {})
  /\ UNCHANGED <<waited, registered, early, cmd, wpos, rpos, open, exit_status, stdout_buf, stderr_buf, done,
                 faults>>

\* self.poll.poll(&mut self.events, None) returns because a source is ready.
PollReady ==
  /\ pc = "poll"
  /\ ready # {}
  /\ \E T \in SUBSET Tokens : Wake(T)

\* poll returns although no source is ready: with no event, or with events
\* of sources that have nothing to read.
PollSpurious ==
  /\ pc = "poll"
  /\ ready = {}
  /\ \E T \in SUBSET Tokens : Wake(T)

\* Mutant of Fail: a failed step ends the iteration.
Fail_Finishes ==
  /\ faults < MaxFaults
  /\ faults' = faults + 1
  /\ Return(Err)
  /\ done' = TRUE
  /\ UNCHANGED <<waited, registered, early, cmd, wpos, rpos, open, exit_status, ready, stdout_buf, stderr_buf,
                 output_buf>>

\* Mutant of Fail: a failed step drops what has been framed so far.
Fail_Discards ==
  /\ faults < MaxFaults
  /\ faults' = faults + 1
  /\ Return(Err)
  /\ output_buf' = <<>>
  /\ stdout_buf' = <<>>
  /\ stderr_buf' = <<>>
  /\ UNCHANGED <<waited, registered, early, cmd, wpos, rpos, open, exit_status, ready,
                 done>>

\* A system call of next fails: next returns Some(Err(err)).
Fail ==
  /\ faults < MaxFaults
  /\ faults' = faults + 1
  /\ Return(Err)
  /\ UNCHANGED <<waited, registered, early, cmd, wpos, rpos, open, exit_status, ready, stdout_buf, stderr_buf,
                 output_buf, done>>

\* poll returns Err.
PollFail ==
  /\ pc = "poll"
  /\ Fail

\* The stream read_pipe is draining.
which == StreamOf(Head(events))

\* reader.read fails with WouldBlock: read_pipe returns Ok(()).
ReadWouldBlock ==
  /\ pc = "read"
  /\ Pipe(which) = <<>>
  /\ open[which]
  /\ ForEvents(Tail(events), output_buf, reported, drained \cup {which})
  /\ UNCHANGED <<waited, registered, early, cmd, wpos, rpos, open, exit_status, ready, stdout_buf, stderr_buf,
                 done, faults>>

\* Mutant of OnEof: at end of file a pending fragment is flushed as a line.
OnEof_Flush(sb, q, s) ==
  IF sb = <<>> THEN [str_buf |-> sb, out_buf |-> q]
  ELSE [str_buf |-> <<>>, out_buf |-> push_back(q, Line(s, from_utf8_lossy(sb)))]

\* What read_pipe does when read returns 0: the line buffer and the queue it
\* leaves, from the line buffer sb and the queue q.
OnEof(sb, q, s) == [str_buf |-> sb, out_buf |-> q]

\* reader.read returns Ok(0), the write end being closed: read_pipe returns
\* Ok(()).
ReadZero ==
  /\ pc = "read"
  /\ Pipe(which) = <<>>
  /\ ~open[which]
  /\ LET r == OnEof(str_buf(which), output_buf, which) IN
       /\ stdout_buf' = IF which = "Stdout" THEN r.str_buf ELSE stdout_buf
       /\ stderr_buf' = IF which = "Stderr" THEN r.str_buf ELSE stderr_buf
       /\ ForEvents(Tail(events), r.out_buf, reported, drained \cup {which})
  /\ UNCHANGED <<waited, registered, early, cmd, wpos, rpos, open, exit_status, ready, done, faults>>

\* Number of bytes a read returns when avail bytes are in the pipe.
ReadLen(avail) == Min(BUFFER_SIZE, avail)

\* Mutant of ReadData: read_pipe returns after one read that returned data.
ReadData_Once ==
  /\ pc = "read"
  /\ Pipe(which) # <<>>
  /\ LET k == ReadLen(Len(Pipe(which)))
         r == Scan(SubSeq(Pipe(which), 1, k), str_buf(which), output_buf, which)
     IN /\ rpos' = [rpos EXCEPT ![which] = @ + k]
        /\ stdout_buf' = IF which = "Stdout" THEN r.str_buf ELSE stdout_buf
        /\ stderr_buf' = IF which = "Stderr" THEN r.str_buf ELSE stderr_buf
        /\ ForEvents(Tail(events), r.out_buf, reported, drained \cup {which})
  /\ early' = early \ {which}
  /\ UNCHANGED <<waited, registered, cmd, wpos, open, exit_status, ready, done,
                 faults>>

\* reader.read returns Ok(n), n > 0: the chunk is scanned and read_pipe loops.
ReadData ==
  /\ pc = "read"
  /\ Pipe(which) # <<>>
  /\ n' = ReadLen(Len(Pipe(which)))
  /\ LET r == Scan(SubSeq(Pipe(which), 1, n'), str_buf(which), output_buf, which)
     IN /\ rpos' = [rpos EXCEPT ![which] = @ + n']
        /\ stdout_buf' = IF which = "Stdout" THEN r.str_buf ELSE stdout_buf
        /\ stderr_buf' = IF which = "Stderr" THEN r.str_buf ELSE stderr_buf
        /\ output_buf' = r.out_buf
  /\ drained' = drained \cup {which}
  /\ early' = early \ {which}
  /\ UNCHANGED <<waited, registered, cmd, wpos, open, exit_status, ready, done, events, pc, ret,
                 yielded, reported, faults>>

\* reader.read fails with another error: read_pipe and next return it.
ReadFail ==
  /\ pc = "read"
  /\ Fail

\* Mutant of TryWaitExited: Done is returned without self.done = true.
TryWaitExited_NoDone ==
  /\ pc = "try_wait"
  /\ exit_status # <<>>
  /\ Return(Done(exit_status[1]))
  /\ UNCHANGED <<waited, registered, early, cmd, wpos, rpos, open, exit_status, ready, stdout_buf, stderr_buf,
                 output_buf, done, faults>>

\* Mutant of TryWaitExited: Done carries the status of a successful exit
\* whatever the child's status is.
TryWaitExited_Status0 ==
  /\ pc = "try_wait"
  /\ exit_status # <<>>
  /\ done' = TRUE
  /\ Return(Done(0))
  /\ UNCHANGED <<waited, registered, early, cmd, wpos, rpos, open, exit_status, ready,
                 stdout_buf, stderr_buf, output_buf, faults>>

\* self.child.try_wait() returns Ok(Some(status)).
TryWaitExited ==
  /\ pc = "try_wait"
  /\ exit_status # <<>>
  /\ done' = TRUE
  /\ Return(Done(exit_status[1]))
  /\ UNCHANGED <<waited, registered, early, cmd, wpos, rpos, open, exit_status, ready, stdout_buf, stderr_buf,
                 output_buf, faults>>

\* Mutant of TryWaitRunning: a child that still runs is reported as exited
\* successfully.
TryWaitRunning_Done ==
  /\ pc = "try_wait"
  /\ exit_status = <<>>
  /\ done' = TRUE
  /\ Return(Done(0))
  /\ UNCHANGED <<waited, registered, early, cmd, wpos, rpos, open, exit_status, ready,
                 stdout_buf, stderr_buf, output_buf, faults>>

\* self.child.try_wait() returns Ok(None): the loop waits again.
TryWaitRunning ==
  /\ pc = "try_wait"
  /\ exit_status = <<>>
  /\ LoopTop(output_buf)
  /\ UNCHANGED <<waited, registered, early, cmd, wpos, rpos, open, exit_status, ready, stdout_buf, stderr_buf,
                 done, faults>>

\* self.child.try_wait() returns Err.
TryWaitFail ==
  /\ pc = "try_wait"
  /\ Fail

\* ------------------------------------------------------------------- Next

Child == (\E s \in Streams : ChildWrite(s)) \/ (\E s \in Streams : ChildClose(s)) \/ ChildExit

Poll == PollReady \/ PollSpurious \/ PollFail

Read == ReadWouldBlock \/ ReadZero \/ ReadData \/ ReadFail

TryWait == TryWaitExited \/ TryWaitRunning \/ TryWaitFail

Next == Register \/ Child \/ Call \/ Poll \/ Read \/ TryWait

Spec == Init /\ [][Next]_vars

\* A run without failing system calls and without spurious wakes: every wake
\* reports exactly the tokens that are pending.
PollExact ==
  /\ pc = "poll"
  /\ ready # {}
  /\ Wake(ready)

ReadOk == ReadWouldBlock \/ ReadZero \/ ReadData

TryWaitOk == TryWaitExited \/ TryWaitRunning

NextOk == Register \/ Child \/ Call \/ PollExact \/ ReadOk \/ TryWaitOk

\* The child runs on until it has exited, the consumer keeps calling next, and
\* a system call that can return does return.
Fairness ==
  /\ WF_vars(Register)
  /\ WF_vars(Child)
  /\ WF_vars(Call)
  /\ WF_vars(PollExact)
  /\ WF_vars(ReadOk)
  /\ WF_vars(TryWaitOk)

\* The runs of the exhaustively enumerated child programs.
InitSmall == Init /\ cmd \in SmallScripts

FairSpec == InitSmall /\ [][NextOk]_vars /\ Fairness

\* -------------------------------------------------------------- reference

\* The reference framing of a byte string: remove every CR, split at every
\* LF, decode each line; the rest is what follows the last LF.
NoCR(b) == SelectSeq(b, LAMBDA x : x # CR)

LFIndexes(b) == {i \in 1..Len(b) : b[i] = LF}

CountLF(b) == Cardinality(LFIndexes(b))

KthLF(b, k) ==
  IF k = 0 THEN 0
  ELSE CHOOSE i \in LFIndexes(b) : Cardinality({j \in LFIndexes(b) : j <= i}) = k

RefSplit(b) == [k \in 1..CountLF(b) |-> SubSeq(b, KthLF(b, k - 1) + 1, KthLF(b, k) - 1)]

RefRest(b) == SubSeq(b, KthLF(b, CountLF(b)) + 1, Len(b))

RefLines(b) ==
  LET l == RefSplit(NoCR(b)) IN [k \in 1..Len(l) |-> from_utf8_lossy(l[k])]

\* The texts of the events of stream s in a sequence of items, in order.
Texts(items, s) ==
  LET f == SelectSeq(items, LAMBDA x : x.kind = s) IN [i \in 1..Len(f) |-> f[i].text]

\* The kinds of a sequence of items, in order.
Kinds(items) == [i \in 1..Len(items) |-> items[i].kind]

IsPrefix(a, b) == Len(a) <= Len(b) /\ a = SubSeq(b, 1, Len(a))

\* ----------------------------------------------------------------- claims

\* C1: at most one Done is ever yielded and no item (line, Done or error) is
\* yielded after it: a Done in the yielded sequence is its last item.
C1_DoneIsLast ==
  \A i \in 1..Len(yielded) : yielded[i].kind = "Done" => i = Len(yielded)

\* Done was yielded after a line and an error, and next was called again.
C1_Witness ==
  /\ Len(yielded) >= 3
  /\ yielded[Len(yielded)].kind = "Done"
  /\ \E i, j \in 1..Len(yielded) : yielded[i].kind = "Err" /\ yielded[j].kind \in Streams
  /\ ret = None

\* C2: when the child exits, no step fails and the consumer keeps calling
\* next, some call eventually yields Done.
C2_EventuallyDone == <>done

\* C3: when Done is yielded (no step having failed), every line the child
\* terminated with a line feed has been yielded as a line event of its
\* stream, and no complete line is left unread in a pipe.
C3_LinesBeforeDone ==
  (done /\ faults = 0) =>
    \A s \in Streams :
      /\ Texts(yielded, s) = RefLines(Output(s))
      /\ LFIndexes(Pipe(s)) = {}

\* C4: the line events of one stream are yielded in the order in which the
\* child wrote their line feeds: the yielded lines of a stream are the first
\* lines of what the child wrote to it.
C4_StreamOrder ==
  \A s \in Streams : IsPrefix(Texts(yielded, s), RefLines(Written(s)))

\* "A\nB\n" and "X\nY\n" were yielded as X, A, Y, B.
C4_Witness ==
  /\ cmd = ScriptABXY
  /\ Len(yielded) >= 4
  /\ SubSeq(yielded, 1, 4) =
       <<Line("Stderr", <<88>>), Line("Stdout", <<65>>),
         Line("Stderr", <<89>>), Line("Stdout", <<66>>)>>

\* C5: once done is set, a step of the reader is a call of next that returns
\* None, is back at once (no wait, read or exit query) and changes neither
\* the queue, the line buffers, the done flag, the pipes, the reactor nor
\* what has been yielded.
C5_FinishedIsTerminal ==
  [][done =>
       /\ ret' = None
       /\ pc' = "idle"
       /\ UNCHANGED <<output_buf, stdout_buf, stderr_buf, done, events, rpos,
                      ready, exit_status, yielded, faults>>]_vars

\* next was called after Done and returned None.
C5_Witness == done /\ ret = None /\ yielded # <<>> /\ pc = "idle"

\* Every line text enqueued so far for stream s: yielded, then still queued.
Enqueued(s) == Texts(yielded, s) \o Texts(output_buf, s)

\* The bytes of a byte string or text.
Range(b) == {b[i] : i \in 1..Len(b)}

\* C6: however the bytes of a stream were split into reads, the line texts
\* enqueued for it are the reference lines of the bytes read so far (every CR
\* removed, split at the LFs, decoded), and its line buffer is the
\* unterminated rest.
C6_ChunkIndependent ==
  /\ Enqueued("Stdout") = RefLines(Consumed("Stdout"))
  /\ Enqueued("Stderr") = RefLines(Consumed("Stderr"))
  /\ stdout_buf = RefRest(NoCR(Consumed("Stdout")))
  /\ stderr_buf = RefRest(NoCR(Consumed("Stderr")))

\* The line "abcdefgh" has just been completed by a read of BUFFER_SIZE bytes
\* that followed a read of one byte.
C6_Witness ==
  /\ cmd = ScriptLong
  /\ pc = "read"
  /\ n = BUFFER_SIZE
  /\ rpos["Stdout"] = BUFFER_SIZE + 1
  /\ output_buf = <<Line("Stdout", <<97, 98, 99, 100, 101, 102, 103, 104>>)>>

\* C7: no line buffer holds a CR or an LF, each holds the bytes other than CR
\* read from its stream since the stream's last LF, and no line event, queued
\* or yielded, has a CR or an LF in its text.
C7_NoLineBreakBytes ==
  /\ Range(stdout_buf) \cap {CR, LF} = {}
  /\ Range(stderr_buf) \cap {CR, LF} = {}
  /\ stdout_buf = NoCR(RefRest(Consumed("Stdout")))
  /\ stderr_buf = NoCR(RefRest(Consumed("Stderr")))
  /\ \A i \in 1..Len(yielded) : Range(yielded[i].text) \cap {CR, LF} = {}
  /\ \A i \in 1..Len(output_buf) : Range(output_buf[i].text) \cap {CR, LF} = {}

\* "a\r\nc\r" was read from stderr: the line "a" was yielded and the buffer
\* holds "c".
C7_Witness ==
  /\ cmd = ScriptFragment
  /\ rpos["Stderr"] = Len(Output("Stderr"))
  /\ \E i \in 1..Len(yielded) : yielded[i] = Line("Stderr", <<97>>)
  /\ stderr_buf = <<99>>

\* C8: a stream never has more line events than line feeds written to it,
\* its line events are the first of the lines it terminated with a line feed,
\* and once its pipe is closed and read to the end the bytes after its last
\* line feed are still in its line buffer.
C8_NoPartialLine ==
  \A s \in Streams :
    /\ Len(Enqueued(s)) <= CountLF(Written(s))
    /\ IsPrefix(Enqueued(s), RefLines(Output(s)))
    /\ (~open[s] /\ rpos[s] = Len(Output(s))) =>
         (IF s = "Stdout" THEN stdout_buf ELSE stderr_buf) = NoCR(RefRest(Output(s)))

\* Done was yielded, no step having failed, after a wake reported the closed
\* pipe of a stream whose fragment is still in its buffer.
C8_Witness ==
  /\ done
  /\ faults = 0
  /\ yielded[Len(yielded)].kind = "Done"
  /\ \E s \in Streams :
       /\ RefRest(Output(s)) # <<>>
       /\ rpos[s] = Len(Output(s))
       /\ TokenOf(s) \notin ready
       /\ Len(Texts(yielded, s)) = CountLF(Output(s))

\* C9: a failing poll, read or try_wait makes next return Some(Err) at once,
\* and leaves done false.
C9_FailureKeepsRunning ==
  [][faults' # faults =>
       /\ pc \in {"poll", "read", "try_wait"}
       /\ ret' = Err
       /\ yielded' = Append(yielded, Err)
       /\ pc' = "idle"
       /\ ~done /\ ~done']_vars

\* After an error, next went on to yield a line and then Done.
C9_Witness ==
  \E i, j, k \in 1..Len(yielded) :
    /\ i < j /\ j < k
    /\ yielded[i] = Err
    /\ yielded[j].kind \in Streams
    /\ yielded[k].kind = "Done"

\* C10 as stated: when the reader asks for the exit status, it has read both
\* pipes since the wake.
C10_DrainsAllSources == pc = "try_wait" => drained = Streams

\* C10 as amended: when the reader asks for the exit status, it has read
\* exactly the pipes whose tokens the wake reported; while it drains, the
\* pipes read and those still to read are the reported ones.
C10_DrainsReported ==
  /\ pc = "try_wait" => {TokenOf(s) : s \in drained} = reported
  /\ pc = "read" =>
       /\ {TokenOf(s) : s \in drained} \subseteq reported
       /\ {TokenOf(s) : s \in drained} \cup Range(events) = reported

\* A wake reported stderr alone, stderr was drained, and the reader asks for
\* the exit status while stdout holds unread bytes.
C10_Witness ==
  /\ pc = "try_wait"
  /\ reported = {STDERR}
  /\ drained = {"Stderr"}
  /\ rpos["Stderr"] > 0
  /\ Pipe("Stdout") # <<>>

\* C11 as stated: the child writes to a stream only once the stream's read
\* end is registered.
C11_RegisteredBeforeOutput ==
  \A s \in Streams : wpos[s] > 0 => TokenOf(s) \in registered

\* C11 as amended: the child can write before the registration, and nothing
\* it writes is missed: while no step has failed, a registered pipe that
\* holds unread bytes has a wake pending, or the current wake reported it and
\* its drain is still to come or running.
C11_NoMissedOutput ==
  \A s \in Streams :
    (TokenOf(s) \in registered /\ Pipe(s) # <<>> /\ faults = 0) =>
      \/ TokenOf(s) \in ready
      \/ pc = "read" /\ TokenOf(s) \in Range(events)

\* A wake reported a stream whose bytes were all written before its read end
\* was registered, and the drain is about to read them.
C11_Witness ==
  /\ pc = "read"
  /\ which \in early
  /\ Pipe(which) # <<>>
  /\ wpos[which] = Len(cmd[which])

\* C12: the reader waits on the reactor, and asks for the exit status, only
\* with an empty queue; a call of next that starts with a nonempty queue
\* yields the head and is back at once, reading no pipe and leaving the
\* reactor alone; and when the last drain of a wake ends with a nonempty queue
\* the call yields the head at once.
C12_NoWaitWhileQueued ==
  /\ [](pc \in {"poll", "try_wait"} => output_buf = <<>>)
  /\ [][(pc = "idle" /\ ~done /\ output_buf # <<>>) =>
          /\ pc' = "idle"
          /\ UNCHANGED <<rpos, stdout_buf, stderr_buf, done, faults>>
          /\ \/ UNCHANGED <<output_buf, ret, yielded, waited>>
             \/ /\ ret' = Head(output_buf)
                /\ yielded' = Append(yielded, Head(output_buf))
                /\ output_buf' = Tail(output_buf)
                /\ ~waited'
                /\ UNCHANGED <<ready, exit_status>>]_vars
  /\ [][(pc = "read" /\ pc' # "read" /\ faults' = faults /\ output_buf # <<>>) =>
          /\ pc' = "idle"
          /\ ret' = Head(output_buf)
          /\ yielded' = Append(yielded, Head(output_buf))
          /\ output_buf' = Tail(output_buf)]_vars

\* Two lines were yielded one after the other, the second by a call that did
\* not wait, and a third is still queued.
C12_Witness ==
  /\ pc = "idle"
  /\ ~waited
  /\ Len(yielded) >= 2
  /\ ret = yielded[Len(yielded)]
  /\ ret.kind \in Streams
  /\ yielded[Len(yielded) - 1].kind \in Streams
  /\ output_buf # <<>>

\* C13: the reader is at the exit query only with an empty queue, after a
\* wake of this call all of whose events were handled, and it gets there from
\* the wake or from its last drain; the query is the only step that sets
\* done; when the child has exited the query sets done and yields Done with
\* the child's status; when the child still runs it yields nothing and the
\* reader waits again; when it fails next yields the error and done stays
\* false.
C13_ExitQuery ==
  /\ [](pc = "try_wait" => output_buf = <<>> /\ events = <<>> /\ waited)
  /\ [][(pc' = "try_wait" /\ pc # "try_wait") => pc \in {"poll", "read"}]_vars
  /\ [][(done' /\ ~done) => (pc = "try_wait" /\ exit_status # <<>>)]_vars
  /\ [][(pc = "try_wait" /\ pc' # "try_wait") =>
          IF faults' # faults
            THEN /\ ret' = Err
                 /\ yielded' = Append(yielded, Err)
                 /\ pc' = "idle"
                 /\ ~done'
          ELSE IF exit_status # <<>>
            THEN /\ done'
                 /\ ret' = Done(exit_status[1])
                 /\ yielded' = Append(yielded, Done(exit_status[1]))
                 /\ pc' = "idle"
          ELSE /\ pc' = "poll"
               /\ UNCHANGED <<ret, yielded, done, output_buf>>]_vars

\* The child exited with status 1 and the call of next that waited yielded
\* Done with status 1.
C13_Witness ==
  /\ exit_status = <<1>>
  /\ done
  /\ waited
  /\ pc = "idle"
  /\ ret = Done(1)
  /\ yielded[Len(yielded)] = Done(1)

\* C14: a step that ends a drain (the event list changes) without failing is
\* a read that found the pipe empty (would-block or zero bytes), reads
\* nothing and yields no error; a failing read ends the drain and next returns
\* the error; a read that returned data leaves the reader in the same drain,
\* about to read again.
C14_DrainEnds ==
  [][pc = "read" =>
       /\ faults' # faults =>
            /\ ret' = Err
            /\ yielded' = Append(yielded, Err)
            /\ pc' = "idle"
            /\ UNCHANGED <<rpos, stdout_buf, stderr_buf, output_buf>>
       /\ (faults' = faults /\ events' # events) =>
            /\ Pipe(which) = <<>>
            /\ UNCHANGED <<rpos, stdout_buf, stderr_buf>>
            /\ ret' = ret \/ ret'.kind \in Streams
            /\ \A i \in 1..Len(yielded') : yielded'[i].kind = "Err" => i <= Len(yielded)
       /\ rpos' # rpos =>
            /\ pc' = "read"
            /\ events' = events
            /\ n' > 0
            /\ n' <= BUFFER_SIZE
            /\ rpos'[which] = rpos[which] + n'
            /\ UNCHANGED <<ret, yielded, faults>>]_vars

\* A drain has read data and is about to read again; that read will report
\* would-block.
C14_Witness ==
  /\ pc = "read"
  /\ n > 0
  /\ faults = 0
  /\ Pipe(which) = <<>>
  /\ open[which]

\* The line events of a sequence of items, in order.
LineItems(items) == SelectSeq(items, LAMBDA x : x.kind \in Streams)

\* C15: the line events yielded so far followed by the queue are the line
\* events in the order of their enqueuing: a step only ever extends that
\* sequence at its end (an event is pushed at the tail, and the event yielded
\* is the head of the queue), and a yielded item that is not a line event
\* leaves the queue as it is; and while the drains of a wake run, the queue
\* holds the lines of the streams drained earlier in the wake before all the
\* lines of the stream being drained.
C15_StrictFifo ==
  /\ [][/\ IsPrefix(LineItems(yielded) \o output_buf, LineItems(yielded') \o output_buf')
        /\ IsPrefix(yielded, yielded')
        /\ Len(yielded') <= Len(yielded) + 1
        /\ (yielded' # yielded /\ ret'.kind \in Streams) =>
             /\ output_buf # <<>> \/ pc = "read"
             /\ Len(LineItems(yielded')) = Len(LineItems(yielded)) + 1
        /\ (yielded' # yielded /\ ret'.kind \notin Streams) =>
             output_buf' = output_buf]_vars
  /\ [](output_buf = LineItems(output_buf))
  /\ [](pc = "read" =>
          \A i, j \in 1..Len(output_buf) :
            (i < j /\ output_buf[i].kind = which) => output_buf[j].kind = which)

\* One wake reported both streams; the drain of stderr ran first and enqueued
\* X and Y, the drain of stdout then enqueued A and B behind them.
C15_Witness ==
  /\ cmd = ScriptABXY
  /\ pc = "read"
  /\ reported = Tokens
  /\ events = <<STDOUT>>
  /\ output_buf = <<Line("Stderr", <<88>>), Line("Stderr", <<89>>),
                    Line("Stdout", <<65>>), Line("Stdout", <<66>>)>>

\* The reader is inside a call of next.
InCall == pc \in {"poll", "read", "try_wait"}

\* C16: while the child has not exited, has written no line feed and no step
\* has failed, next has not returned; and in general a step of a call of next
\* taken with an empty queue, while the child has not exited and no unread
\* line feed is in a pipe, and that does not fail, leaves the call running
\* (waiting, draining or asking for the exit status) with nothing yielded; a
\* call that starts with an empty queue goes to the wait.
C16_StallsWithoutLine ==
  /\ []((exit_status = <<>> /\ faults = 0 /\ \A s \in Streams : LFIndexes(Written(s)) = {})
          => (yielded = <<>> /\ ret = NotCalled /\ ~done))
  /\ [][(/\ InCall
         /\ output_buf = <<>>
         /\ exit_status = <<>>
         /\ \A s \in Streams : LFIndexes(Pipe(s)) = {}
         /\ faults' = faults) =>
          /\ InCall'
          /\ output_buf' = <<>>
          /\ UNCHANGED <<ret, yielded, done>>]_vars
  /\ [][(pc = "idle" /\ ~done /\ output_buf = <<>> /\ pc' # "idle") =>
          /\ pc' = "poll"
          /\ UNCHANGED <<ret, yielded, done, rpos, ready>>]_vars
  /\ [][(pc = "try_wait" /\ exit_status = <<>> /\ faults' = faults /\ pc' # pc) =>
          pc' = "poll"]_vars

\* The first call of next was woken, read a fragment without line feed from
\* stdout, found the child still running and waits on the reactor again.
C16_Witness ==
  /\ pc = "poll"
  /\ waited
  /\ ret = NotCalled
  /\ yielded = <<>>
  /\ exit_status = <<>>
  /\ stdout_buf # <<>>
  /\ rpos["Stdout"] > 0

\* C17: a step of the drain run for a stream's token leaves the other
\* stream's read position and line buffer unchanged, and the events it
\* enqueues are of the drained stream's kind; the line buffers change in no other step; and the
\* text of every line event of a stream, yielded or queued, is one of the
\* lines written to that stream.
C17_RoutedByStream ==
  /\ [][pc = "read" =>
          /\ Head(events) = STDOUT =>
               /\ rpos'["Stderr"] = rpos["Stderr"]
               /\ stderr_buf' = stderr_buf
          /\ Head(events) = STDERR =>
               /\ rpos'["Stdout"] = rpos["Stdout"]
               /\ stdout_buf' = stdout_buf
          /\ rpos' # rpos =>
               /\ IsPrefix(output_buf, output_buf')
               /\ \A i \in (Len(output_buf) + 1)..Len(output_buf') :
                    output_buf'[i].kind =
                      (IF Head(events) = STDOUT THEN "Stdout" ELSE "Stderr")]_vars
  /\ [][pc # "read" => UNCHANGED <<rpos, stdout_buf, stderr_buf>>]_vars
  /\ [](\A s \in Streams :
          \A i \in 1..Len(Enqueued(s)) :
            \E k \in 1..Len(RefLines(Written(s))) :
              Enqueued(s)[i] = RefLines(Written(s))[k])

\* One wake reported both streams: the drain of stderr enqueued X and Y, the
\* drain of stdout, still running, has read A and B.
C17_Witness ==
  /\ cmd = ScriptABXY
  /\ pc = "read"
  /\ which = "Stdout"
  /\ n > 0
  /\ "Stderr" \in drained
  /\ Enqueued("Stdout") = <<<<65>>, <<66>>>>
  /\ Enqueued("Stderr") = <<<<88>>, <<89>>>>

\* C18: when done is set the queue is empty, and Done is never in the queue.
C18_DoneQueueEmpty ==
  /\ done => output_buf = <<>>
  /\ \A i \in 1..Len(output_buf) : output_buf[i].kind # "Done"

\* Done was yielded, right after two lines, and the queue is empty.
C18_Witness ==
  /\ done
  /\ output_buf = <<>>
  /\ Len(yielded) >= 3
  /\ yielded[Len(yielded)].kind = "Done"
  /\ yielded[Len(yielded) - 1].kind \in Streams
  /\ yielded[Len(yielded) - 2].kind \in Streams

\* C19: a failing step leaves the queue, both line buffers and the read
\* positions as they are; once a step has failed the enqueued line events and
\* the line buffers still account for every byte read (the events are the
\* lines of the bytes read, the buffers the unterminated rests); and from a
\* nonempty queue the reader leaves its idle position only through calls that
\* yield the head of the queue without waiting.
C19_FailureKeepsFramed ==
  /\ [][faults' # faults =>
          UNCHANGED <<output_buf, stdout_buf, stderr_buf, rpos, ready>>]_vars
  /\ [](faults > 0 =>
          \A s \in Streams :
            /\ Texts(LineItems(yielded) \o output_buf, s) = RefLines(Consumed(s))
            /\ str_buf(s) = RefRest(NoCR(Consumed(s))))
  /\ [][(pc = "idle" /\ ret = Err /\ output_buf # <<>>) =>
          /\ pc' = "idle"
          /\ \/ output_buf' = output_buf /\ ret' = ret
             \/ /\ output_buf' = Tail(output_buf)
                /\ ret' = Head(output_buf)
                /\ ~waited']_vars

\* A read of stderr failed after a read that had enqueued the line "a" and
\* buffered "c"; the next call of next yielded the line without waiting and
\* the fragment is still in the buffer.
C19_Witness ==
  /\ cmd = ScriptFragment
  /\ pc = "idle"
  /\ ~waited
  /\ Len(yielded) >= 2
  /\ yielded[Len(yielded) - 1] = Err
  /\ ret = Line("Stderr", <<97>>)
  /\ yielded[Len(yielded)] = ret
  /\ stderr_buf = <<99>>

====
